---- MODULE Spec2Model ----
(***************************************************************************)
(* The SOLID example browser of main.py: a menu loop that reads a choice,  *)
(* resolves it to the bad/good example pair of one principle, and prints   *)
(* both files.  Text is modelled as sequences of one-character strings, so *)
(* that strip(), split(), lower() and os.path.join() are computed, not     *)
(* assumed.                                                                *)
(***************************************************************************)
EXTENDS Integers, Sequences, FiniteSets, TLC

\* Longest input stream (lines available on standard input) explored.
MaxInputs == 3

----------------------------------------------------------------------------
(* Characters and strings *)

Str1 == <<"1">>
Str2 == <<"2">>
Str3 == <<"3">>
Str4 == <<"4">>
Str5 == <<"5">>
Str6 == <<"6">>

\* The characters str.strip() removes that can occur in a line of input.
Whitespace == {" ", "\t", "\n", "\r", "\f"}

UpperCase == <<"A","B","C","D","E","F","G","H","I","J","K","L","M",
               "N","O","P","Q","R","S","T","U","V","W","X","Y","Z">>
LowerCase == <<"a","b","c","d","e","f","g","h","i","j","k","l","m",
               "n","o","p","q","r","s","t","u","v","w","x","y","z">>

\* str.lower() on one character.
LowerChar(c) ==
    IF \E i \in 1..Len(UpperCase) : UpperCase[i] = c
    THEN LowerCase[CHOOSE i \in 1..Len(UpperCase) : UpperCase[i] = c]
    ELSE c

\* str.lower()
Lower(s) == [i \in 1..Len(s) |-> LowerChar(s[i])]

RECURSIVE LStrip(_)
LStrip(s) ==
    IF s # <<>> /\ Head(s) \in Whitespace THEN LStrip(Tail(s)) ELSE s

RECURSIVE RStrip(_)
RStrip(s) ==
    IF s # <<>> /\ s[Len(s)] \in Whitespace
    THEN RStrip(SubSeq(s, 1, Len(s) - 1))
    ELSE s

\* A plausible slip: rstrip() instead of strip().
StripTrailingOnly(s) == RStrip(s)

\* str.strip() with no argument.
Strip(s) == RStrip(LStrip(s))

\* str.split(sep) for a one-character separator: the list of fields.
RECURSIVE Split(_, _)
Split(s, sep) ==
    IF \E i \in 1..Len(s) : s[i] = sep
    THEN LET i == CHOOSE k \in 1..Len(s) :
                     s[k] = sep /\ \A j \in 1..(k - 1) : s[j] # sep
         IN  <<SubSeq(s, 1, i - 1)>> \o Split(SubSeq(s, i + 1, Len(s)), sep)
    ELSE <<s>>

\* os.path.join(a, b) on a POSIX system.
PathJoin(a, b) ==
    IF b # <<>> /\ Head(b) = "/" THEN b
    ELSE IF a = <<>> \/ a[Len(a)] = "/" THEN a \o b
    ELSE a \o <<"/">> \o b

----------------------------------------------------------------------------
(* The principle identifiers and the example files of the repository *)

Srp == <<"1","-","s","r","p">>
Ocp == <<"2","-","o","c","p">>
Lsp == <<"3","-","l","s","p">>
Isp == <<"4","-","i","s","p">>
Dip == <<"5","-","d","i","p">>

\* Python indexes from 0: principle.split('-')[1] is the second field.
Suffix(principle) == Lower(Split(principle, "-")[2])

\* f"bad_{...}.py" and f"good_{...}.py" joined to the principle's directory.
BadExample(principle) ==
    PathJoin(principle, <<"b","a","d","_">> \o Suffix(principle) \o <<".","p","y">>)

GoodExample(principle) ==
    PathJoin(principle, <<"g","o","o","d","_">> \o Suffix(principle) \o <<".","p","y">>)

BadSrp  == <<"1","-","s","r","p","/","b","a","d","_","s","r","p",".","p","y">>
GoodSrp == <<"1","-","s","r","p","/","g","o","o","d","_","s","r","p",".","p","y">>
BadOcp  == <<"2","-","o","c","p","/","b","a","d","_","o","c","p",".","p","y">>
GoodOcp == <<"2","-","o","c","p","/","g","o","o","d","_","o","c","p",".","p","y">>
BadLsp  == <<"3","-","l","s","p","/","b","a","d","_","l","s","p",".","p","y">>
GoodLsp == <<"3","-","l","s","p","/","g","o","o","d","_","l","s","p",".","p","y">>
BadIsp  == <<"4","-","i","s","p","/","b","a","d","_","i","s","p",".","p","y">>
GoodIsp == <<"4","-","i","s","p","/","g","o","o","d","_","i","s","p",".","p","y">>
BadDip  == <<"5","-","d","i","p","/","b","a","d","_","d","i","p",".","p","y">>
GoodDip == <<"5","-","d","i","p","/","g","o","o","d","_","d","i","p",".","p","y">>

\* The ten example files shipped with the repository.
ExampleFiles ==
    {BadSrp, GoodSrp, BadOcp, GoodOcp, BadLsp, GoodLsp,
     BadIsp, GoodIsp, BadDip, GoodDip}

\* The text of each shipped file, kept as one opaque value per file.
FileText(path) ==
    CASE path = BadSrp  -> "text of 1-srp/bad_srp.py"
      [] path = GoodSrp -> "text of 1-srp/good_srp.py"
      [] path = BadOcp  -> "text of 2-ocp/bad_ocp.py"
      [] path = GoodOcp -> "text of 2-ocp/good_ocp.py"
      [] path = BadLsp  -> "text of 3-lsp/bad_lsp.py"
      [] path = GoodLsp -> "text of 3-lsp/good_lsp.py"
      [] path = BadIsp  -> "text of 4-isp/bad_isp.py"
      [] path = GoodIsp -> "text of 4-isp/good_isp.py"
      [] path = BadDip  -> "text of 5-dip/bad_dip.py"
      [] path = GoodDip -> "text of 5-dip/good_dip.py"

----------------------------------------------------------------------------
(* Literals printed by the program *)

MenuLines ==
    <<"Welcome to the SOLID Principles Interactive Demo!",
      "Please choose a principle to explore:",
      "1. Single Responsibility Principle (SRP)",
      "2. Open/Closed Principle (OCP)",
      "3. Liskov Substitution Principle (LSP)",
      "4. Interface Segregation Principle (ISP)",
      "5. Dependency Inversion Principle (DIP)",
      "6. Exit">>

Prompt     == "Enter your choice: "
BadHeader  == "\n--- Bad Example ---"
GoodHeader == "\n--- Good Example ---"
Goodbye    == "Goodbye!"
InvalidMsg == "Invalid choice, please try again."

----------------------------------------------------------------------------
(* State *)

VARIABLES
    fs,            \* the example directory: status of each shipped file
    inputs,        \* the lines standard input will deliver, in order
    pos,           \* number of lines consumed from standard input
    pc,            \* position of the single thread of control
    choice,        \* main: the local variable choice
    principle,     \* load_example: the argument principle
    output,        \* everything written to standard output, one item per print
    handles,       \* paths of the file objects currently open
    opened,        \* every path passed to open(), in order
    exc            \* the exception that ended the process, or "none"

vars == <<fs, inputs, pos, pc, choice, principle, output, handles, opened, exc>>

\* ok: readable text; missing: no such file; denied: no read permission;
\* corrupt: opens, but its bytes do not decode as text.
FileStatuses == {"ok", "missing", "denied", "corrupt"}

\* A path that is not one of the shipped files does not exist.
StatusOf(path) == IF path \in DOMAIN fs THEN fs[path] ELSE "missing"

\* A plausible slip: a mode that creates the file, so that open never fails.
OpenErrorNever(path) == "none"

\* The exception open(path, "r") raises, or "none" when it succeeds.
OpenError(path) ==
    CASE StatusOf(path) = "ok"      -> "none"
      [] StatusOf(path) = "corrupt" -> "none"
      [] StatusOf(path) = "missing" -> "FileNotFoundError"
      [] StatusOf(path) = "denied"  -> "PermissionError"

\* The exception file.read() raises on an open file, or "none".
ReadError(path) ==
    IF StatusOf(path) = "corrupt" THEN "UnicodeDecodeError" ELSE "none"

\* A plausible slip: the text is consumed by its first reader, so that a
\* second read of the same file returns the empty string.
FileReadOnce(path) ==
    IF Cardinality({i \in DOMAIN opened : opened[i] = path}) > 1
    THEN ""
    ELSE FileText(path)

\* file.read(): the whole text of the open file.
FileRead(path) == FileText(path)

----------------------------------------------------------------------------
(* Inputs the model explores *)

AllOk == [p \in ExampleFiles |-> "ok"]

\* The shipped tree, the tree with one file deleted, the tree with the bad
\* SRP example unreadable or the good one corrupted, and the tree without
\* both LSP examples.
FsConfigs ==
    {AllOk}
    \cup {[AllOk EXCEPT ![p] = "missing"] : p \in ExampleFiles}
    \cup {[AllOk EXCEPT ![BadSrp] = "denied"],
          [AllOk EXCEPT ![GoodSrp] = "corrupt"]}
    \cup {[AllOk EXCEPT ![BadLsp] = "missing", ![GoodLsp] = "missing"]}

\* Lines a user may type (input() has already removed the newline).
InputLines ==
    {Str1, Str2, Str3, Str4, Str5, Str6, <<"9">>}

\* Lines that exercise the matching of the selection.
MatchLines ==
    {Str1, Str3, Str6, <<"7">>, <<>>, <<" ","3">>, <<" ","6"," ">>,
     <<"\t","1"," ">>, <<"0","6">>, <<"1",".">>}

\* Lines of the sessions whose termination is examined.
SessionLines == {Str1, Str3, Str6, <<"9">>}

SeqsUpTo(S, n) == UNION {[1..k -> S] : k \in 0..n}

TypeOK ==
    /\ fs \in [ExampleFiles -> FileStatuses]
    /\ pos \in 0..Len(inputs)
    /\ pc \in {"menu", "read", "dispatch", "load", "open_bad", "read_bad",
               "close_bad", "good_header", "open_good", "read_good",
               "close_good", "done", "crashed"}
    /\ handles \subseteq ExampleFiles
    /\ exc \in {"none", "FileNotFoundError", "PermissionError",
               "UnicodeDecodeError", "EOFError"}

Start ==
    /\ pos = 0
    /\ pc = "menu"
    /\ choice = <<>>
    /\ principle = <<>>
    /\ output = <<>>
    /\ handles = {}
    /\ opened = <<>>
    /\ exc = "none"

Init ==
    /\ fs \in FsConfigs
    /\ inputs \in SeqsUpTo(InputLines, MaxInputs)
    /\ Start

\* Sessions typed with stray blanks and near-miss selections.
MatchInit ==
    /\ fs \in {AllOk, [AllOk EXCEPT ![BadLsp] = "missing"]}
    /\ inputs \in SeqsUpTo(MatchLines, MaxInputs)
    /\ Start

\* Sessions run to their end.
SessionInit ==
    /\ fs \in {AllOk, [AllOk EXCEPT ![GoodLsp] = "missing"]}
    /\ inputs \in SeqsUpTo(SessionLines, MaxInputs)
    /\ Start

----------------------------------------------------------------------------
(* main *)

\* display_menu(): eight print calls.
DisplayMenu ==
    /\ pc = "menu"
    /\ output' = output \o MenuLines
    /\ pc' = "read"
    /\ UNCHANGED <<fs, inputs, pos, choice, principle, handles, opened, exc>>

\* choice = input("Enter your choice: ").strip()
\* input() writes the prompt, then reads one line; at end of input it raises
\* EOFError, which nothing catches.
ReadSelection ==
    /\ pc = "read"
    /\ output' = Append(output, Prompt)
    /\ IF pos < Len(inputs)
       THEN /\ pos' = pos + 1
            /\ choice' = Strip(inputs[pos + 1])
            /\ pc' = "dispatch"
            /\ exc' = exc
       ELSE /\ pc' = "crashed"
            /\ exc' = "EOFError"
            /\ UNCHANGED <<pos, choice>>
    /\ UNCHANGED <<fs, inputs, principle, handles, opened>>

\* A plausible slip: choices 3 and 4 swapped in the if/elif chain.
PrincipleOfSwapped(c) ==
    CASE c = Str1 -> Srp
      [] c = Str2 -> Ocp
      [] c = Str3 -> Isp
      [] c = Str4 -> Lsp
      [] c = Str5 -> Dip

\* The if/elif chain of main: the identifier passed to load_example.
PrincipleOf(c) ==
    CASE c = Str1 -> Srp
      [] c = Str2 -> Ocp
      [] c = Str3 -> Lsp
      [] c = Str4 -> Isp
      [] c = Str5 -> Dip

\* The branches of the if/elif chain that call load_example.
IsExampleChoice(c) == c \in {Str1, Str2, Str3, Str4, Str5}

\* choice in '1'..'5': call load_example(<identifier>)
DispatchExample ==
    /\ pc = "dispatch"
    /\ IsExampleChoice(choice)
    /\ principle' = PrincipleOf(choice)
    /\ pc' = "load"
    /\ UNCHANGED <<fs, inputs, pos, choice, output, handles, opened, exc>>

\* A plausible slip: the break is missing.
DispatchExitNoBreak ==
    /\ pc = "dispatch"
    /\ ~IsExampleChoice(choice)
    /\ choice = Str6
    /\ output' = Append(output, Goodbye)
    /\ pc' = "menu"
    /\ UNCHANGED <<fs, inputs, pos, choice, principle, handles, opened, exc>>

\* A plausible slip: the loop is left without the farewell.
DispatchExitSilent ==
    /\ pc = "dispatch"
    /\ ~IsExampleChoice(choice)
    /\ choice = Str6
    /\ pc' = "done"
    /\ UNCHANGED <<fs, inputs, pos, choice, principle, output, handles, opened, exc>>

\* choice == '6': print("Goodbye!"); break
DispatchExit ==
    /\ pc = "dispatch"
    /\ ~IsExampleChoice(choice)
    /\ choice = Str6
    /\ output' = Append(output, Goodbye)
    /\ pc' = "done"
    /\ UNCHANGED <<fs, inputs, pos, choice, principle, handles, opened, exc>>

\* A plausible slip: the else branch leaves the loop as well.
DispatchInvalidBreaks ==
    /\ pc = "dispatch"
    /\ ~IsExampleChoice(choice)
    /\ choice # Str6
    /\ output' = Append(output, InvalidMsg)
    /\ pc' = "done"
    /\ UNCHANGED <<fs, inputs, pos, choice, principle, handles, opened, exc>>

\* else: print("Invalid choice, please try again.")
DispatchInvalid ==
    /\ pc = "dispatch"
    /\ ~IsExampleChoice(choice)
    /\ choice # Str6
    /\ output' = Append(output, InvalidMsg)
    /\ pc' = "menu"
    /\ UNCHANGED <<fs, inputs, pos, choice, principle, handles, opened, exc>>

----------------------------------------------------------------------------
(* load_example *)

\* The paths are computed, then print("\n--- Bad Example ---").
PrintBadHeader ==
    /\ pc = "load"
    /\ output' = Append(output, BadHeader)
    /\ pc' = "open_bad"
    /\ UNCHANGED <<fs, inputs, pos, choice, principle, handles, opened, exc>>

\* open(path, "r") at program position at; on success control moves to next.
\* An exception leaves load_example and main, and ends the process.
Open(path, at, next) ==
    /\ pc = at
    /\ opened' = Append(opened, path)
    /\ IF OpenError(path) = "none"
       THEN /\ handles' = handles \cup {path}
            /\ pc' = next
            /\ exc' = exc
       ELSE /\ handles' = handles
            /\ pc' = "crashed"
            /\ exc' = OpenError(path)
    /\ UNCHANGED <<fs, inputs, pos, choice, principle, output>>

\* print(file.read()); an exception in read() leaves the with block, which
\* closes the file, then leaves load_example and main.
PrintFile(path, at, next) ==
    /\ pc = at
    /\ path \in handles
    /\ IF ReadError(path) = "none"
       THEN /\ output' = Append(output, FileRead(path))
            /\ pc' = next
            /\ UNCHANGED <<handles, exc>>
       ELSE /\ handles' = handles \ {path}
            /\ pc' = "crashed"
            /\ exc' = ReadError(path)
            /\ output' = output
    /\ UNCHANGED <<fs, inputs, pos, choice, principle, opened>>

\* A plausible slip: the file object is never closed.
CloseLeaking(path, at, next) ==
    /\ pc = at
    /\ pc' = next
    /\ UNCHANGED <<fs, inputs, pos, choice, principle, output, handles, opened, exc>>

\* Leaving the with block closes the file.
Close(path, at, next) ==
    /\ pc = at
    /\ handles' = handles \ {path}
    /\ pc' = next
    /\ UNCHANGED <<fs, inputs, pos, choice, principle, output, opened, exc>>

OpenBad   == Open(BadExample(principle), "open_bad", "read_bad")
PrintBad  == PrintFile(BadExample(principle), "read_bad", "close_bad")
CloseBad  == Close(BadExample(principle), "close_bad", "good_header")

\* print("\n--- Good Example ---")
PrintGoodHeader ==
    /\ pc = "good_header"
    /\ output' = Append(output, GoodHeader)
    /\ pc' = "open_good"
    /\ UNCHANGED <<fs, inputs, pos, choice, principle, handles, opened, exc>>

OpenGood  == Open(GoodExample(principle), "open_good", "read_good")
PrintGood == PrintFile(GoodExample(principle), "read_good", "close_good")
\* load_example returns; main goes round the while loop again.
CloseGood == Close(GoodExample(principle), "close_good", "menu")

----------------------------------------------------------------------------

Next ==
    \/ DisplayMenu
    \/ ReadSelection
    \/ DispatchExample
    \/ DispatchExit
    \/ DispatchInvalid
    \/ PrintBadHeader
    \/ OpenBad
    \/ PrintBad
    \/ CloseBad
    \/ PrintGoodHeader
    \/ OpenGood
    \/ PrintGood
    \/ CloseGood

Spec == Init /\ [][Next]_vars

MatchSpec == MatchInit /\ [][Next]_vars

\* One thread of control, blocked on nothing but standard input, whose lines
\* are all there: the next statement is always executed.
FairSpec == SessionInit /\ [][Next]_vars /\ WF_vars(Next)

----------------------------------------------------------------------------
(* Observations on a run, read off standard input and standard output only *)

Min(S) == CHOOSE x \in S : \A y \in S : x <= y

Positions(item) == {i \in DOMAIN output : output[i] = item}

\* Number of times the menu has been displayed.
MenuCount == Cardinality(Positions(MenuLines[1]))

\* Index in output of the k-th prompt.
PromptAt(k) ==
    LET prompts == Positions(Prompt)
    IN  CHOOSE i \in prompts : Cardinality({j \in prompts : j <= i}) = k

\* What was printed in answer to the k-th line of input: the items between
\* the k-th prompt and the next display of the menu (or the end of output).
Response(k) ==
    LET p     == PromptAt(k)
        later == {m \in (p + 1)..Len(output) : output[m] = MenuLines[1]}
        last  == IF later = {} THEN Len(output) ELSE Min(later) - 1
    IN  SubSeq(output, p + 1, last)

\* The answer to the k-th line is finished: control is back in the loop, or
\* the process has ended.
Answered(k) ==
    /\ k \in 1..pos
    /\ k < pos \/ pc \in {"menu", "read", "done", "crashed"}

\* The text of a line between its first and its last non-blank character.
Trimmed(line) ==
    LET solid == {i \in DOMAIN line : line[i] \notin Whitespace}
    IN  IF solid = {} THEN <<>>
        ELSE SubSeq(line, Min(solid), CHOOSE j \in solid : \A i \in solid : i <= j)

ExampleChoices == {Str1, Str2, Str3, Str4, Str5}

\* The documented layout: choice -> identifier, bad path, good path.
LayoutId(c) ==
    CASE c = Str1 -> Srp [] c = Str2 -> Ocp [] c = Str3 -> Lsp
      [] c = Str4 -> Isp [] c = Str5 -> Dip
LayoutBad(c) ==
    CASE c = Str1 -> BadSrp [] c = Str2 -> BadOcp [] c = Str3 -> BadLsp
      [] c = Str4 -> BadIsp [] c = Str5 -> BadDip
LayoutGood(c) ==
    CASE c = Str1 -> GoodSrp [] c = Str2 -> GoodOcp [] c = Str3 -> GoodLsp
      [] c = Str4 -> GoodIsp [] c = Str5 -> GoodDip

PairPresent(c) == fs[LayoutBad(c)] = "ok" /\ fs[LayoutGood(c)] = "ok"

\* The full answer to an example choice whose files are present.
FullAnswer(c) ==
    <<BadHeader, FileText(LayoutBad(c)), GoodHeader, FileText(LayoutGood(c))>>

\* The opens a sequence of trimmed choices calls for, all files present.
RECURSIVE OpensFor(_)
OpensFor(cs) ==
    IF cs = <<>> THEN <<>>
    ELSE (IF Head(cs) \in ExampleChoices
          THEN <<LayoutBad(Head(cs)), LayoutGood(Head(cs))>> ELSE <<>>)
         \o OpensFor(Tail(cs))

ConsumedChoices == [k \in 1..pos |-> Trimmed(inputs[k])]

InLoadExample ==
    pc \in {"load", "open_bad", "read_bad", "close_bad", "good_header",
            "open_good", "read_good", "close_good"}

----------------------------------------------------------------------------
(* Claims *)

\* C1: for every choice 1..5 whose two example files are present, main calls
\* load_example with the fixed identifier of that choice, and the finished
\* answer is exactly: bad header, full bad text, good header, full good
\* text; the files opened for it are exactly <id>/bad_<suffix>.py and then
\* <id>/good_<suffix>.py, and no other file is opened in the session.
C1_ExamplePairShown ==
    /\ InLoadExample => principle = LayoutId(Trimmed(inputs[pos]))
    /\ \A k \in 1..pos :
          LET c == Trimmed(inputs[k])
          IN  (Answered(k) /\ c \in ExampleChoices /\ PairPresent(c))
                  => Response(k) = FullAnswer(c)
    /\ (pc \in {"menu", "read", "done"}
          /\ \A k \in 1..pos : Trimmed(inputs[k]) \in ExampleChoices
                                  => PairPresent(Trimmed(inputs[k])))
          => opened = OpensFor(ConsumedChoices)

\* Three different example choices were answered in full in one session.
C1_Witness ==
    /\ pc = "menu"
    /\ pos = 3
    /\ Trimmed(inputs[1]) = Str3
    /\ Trimmed(inputs[2]) = Str5
    /\ Trimmed(inputs[3]) = Str1
    /\ opened = <<BadLsp, GoodLsp, BadDip, GoodDip, BadSrp, GoodSrp>>
    /\ Response(3) = FullAnswer(Str1)

\* The process has ended, by leaving main or by an uncaught exception.
Terminated == pc \in {"done", "crashed"}

\* The file of the last open() is missing, unreadable or corrupted.
LastOpenFailed ==
    opened # <<>> /\ StatusOf(opened[Len(opened)]) # "ok"

\* C2: the browser reaches Terminated only on the exit selection: whenever
\* the session has ended, the last line consumed was the exit choice "6".
C2_TerminatedOnlyOnExit ==
    Terminated => (pos > 0 /\ Trimmed(inputs[pos]) = Str6)

\* C3: when a file of the selected example is missing or unreadable, the
\* load_example call is aborted and the menu loop keeps running: a failed
\* open never leaves the process ended.
C3_LoopSurvivesFileError ==
    LastOpenFailed => ~Terminated

\* C4: a line whose trimmed text is none of "1".."6" is answered by the
\* invalid-choice message and nothing else, no file is accessed for it, the
\* browser keeps running, and the menu and the prompt follow.
C4_InvalidChoiceReprompts ==
    /\ \A k \in 1..pos :
          (Answered(k) /\ Trimmed(inputs[k]) \notin (ExampleChoices \cup {Str6}))
              => /\ Response(k) = <<InvalidMsg>>
                 /\ k = pos => pc \in {"menu", "read"} \/ exc = "EOFError"
                 /\ (k = pos /\ pc = "read") =>
                       LET p == PromptAt(k)
                       IN  SubSeq(output, p + 2, Len(output)) = MenuLines
                 /\ (k < pos \/ pc = "crashed") =>
                       LET p == PromptAt(k)
                       IN  SubSeq(output, p + 2, p + 10) = MenuLines \o <<Prompt>>
    /\ Len(opened) <= 2 * Cardinality({k \in 1..pos :
                                          Trimmed(inputs[k]) \in ExampleChoices})
    /\ (pos > 0 /\ Trimmed(inputs[pos]) \notin ExampleChoices) => handles = {}

\* Two invalid lines in a row were answered and the prompt is up again.
C4_Witness ==
    /\ pos = 2
    /\ pc = "dispatch"
    /\ Trimmed(inputs[1]) = <<"9">>
    /\ Response(1) = <<InvalidMsg>>
    /\ opened = <<>>

\* C5: once the exit choice "6" has been consumed, the only thing the
\* program does is print "Goodbye!" and end: no later line is consumed, no
\* menu or prompt follows, no file is opened after it, and "Goodbye!" is the
\* last item printed.
C5_ExitEndsSession ==
    \A k \in 1..pos :
        Trimmed(inputs[k]) = Str6 =>
            /\ k = pos
            /\ pc \in {"dispatch", "done"}
            /\ pc = "done" =>
                  /\ Response(k) = <<Goodbye>>
                  /\ output[Len(output)] = Goodbye
                  /\ MenuCount = pos
                  /\ Cardinality(Positions(Prompt)) = pos
                  /\ exc = "none"
                  /\ handles = {}
                  /\ Len(opened) = 2 * Cardinality({j \in 1..pos :
                                         Trimmed(inputs[j]) \in ExampleChoices})

\* The session ended on "6" while a further line was waiting on input.
C5_Witness ==
    /\ pc = "done"
    /\ pos = 2
    /\ Len(inputs) = 3
    /\ Trimmed(inputs[1]) = Str1
    /\ output[Len(output)] = Goodbye

\* C6: with the files unchanged, two selections of the same example choice
\* in one session are answered identically.
C6_SameChoiceSameAnswer ==
    \A j, k \in 1..pos :
        (/\ j < k
         /\ Trimmed(inputs[j]) = Trimmed(inputs[k])
         /\ Trimmed(inputs[j]) \in ExampleChoices
         /\ Answered(k))
            => Response(j) = Response(k)

\* The same example was shown twice with an invalid line in between.
C6_Witness ==
    /\ pc = "menu"
    /\ pos = 3
    /\ Trimmed(inputs[1]) = Str2
    /\ Trimmed(inputs[2]) = <<"9">>
    /\ Trimmed(inputs[3]) = Str2
    /\ Response(1) = FullAnswer(Str2)
    /\ Response(3) = FullAnswer(Str2)

\* C7: at most one example file is open at any time; the bad file is closed
\* before the good one is opened; outside load_example, and after a failed
\* open, no file is open.
C7_NoHandleOutlivesCall ==
    /\ Cardinality(handles) <= 1
    /\ pc \in {"read_bad", "close_bad"} =>
          handles = {LayoutBad(Trimmed(inputs[pos]))}
    /\ pc \in {"read_good", "close_good"} =>
          handles = {LayoutGood(Trimmed(inputs[pos]))}
    /\ pc \notin {"read_bad", "close_bad", "read_good", "close_good"} =>
          handles = {}

\* The good file is open, after the bad one was opened and closed.
C7_Witness ==
    /\ pc = "read_good"
    /\ opened = <<BadIsp, GoodIsp>>
    /\ handles = {GoodIsp}

\* A later open of the session failed after a first example was shown.
C7_WitnessOpenFailure ==
    /\ pc = "crashed"
    /\ exc = "FileNotFoundError"
    /\ Len(opened) = 4
    /\ handles = {}

\* A read failed inside the with block, which closed the file.
C7_WitnessReadFailure ==
    /\ pc = "crashed"
    /\ exc = "UnicodeDecodeError"
    /\ opened[Len(opened)] = GoodSrp
    /\ handles = {}

\* Index of the first line of input that is the exit choice.
FirstExit ==
    Min({k \in DOMAIN inputs : Trimmed(inputs[k]) = Str6})

\* The answer the documentation gives to one trimmed choice.
AnswerTo(c) ==
    IF c \in ExampleChoices THEN FullAnswer(c)
    ELSE IF c = Str6 THEN <<Goodbye>>
    ELSE <<InvalidMsg>>

\* Standard output of a whole session over the given lines, all files
\* present: menu, prompt and answer for each line, in order.
RECURSIVE SessionOutput(_)
SessionOutput(lines) ==
    IF lines = <<>> THEN <<>>
    ELSE MenuLines \o <<Prompt>> \o AnswerTo(Trimmed(Head(lines)))
         \o SessionOutput(Tail(lines))

SessionComplete ==
    /\ pc = "done"
    /\ pos = FirstExit
    /\ MenuCount = pos
    /\ output = SessionOutput(SubSeq(inputs, 1, FirstExit))
    /\ Cardinality(Positions(Goodbye)) = 1
    /\ output[Len(output)] = Goodbye

\* C8: with all ten example files present, a session whose input contains
\* the exit choice eventually ends; it has then consumed the lines up to and
\* including the first "6", displayed the menu once per consumed line,
\* answered the lines in order, and printed "Goodbye!" once, last.
C8_SessionTerminates ==
    (fs = AllOk /\ \E k \in DOMAIN inputs : Trimmed(inputs[k]) = Str6)
        ~> SessionComplete

\* The session ["9", "3", "6"] has ended with the documented output.
C8_Witness ==
    /\ fs = AllOk
    /\ inputs = <<(<<"9">>), Str3, Str6>>
    /\ pc = "done"
    /\ output = MenuLines \o <<Prompt, InvalidMsg>>
                \o MenuLines \o <<Prompt, BadHeader, FileText(BadLsp),
                                  GoodHeader, FileText(GoodLsp)>>
                \o MenuLines \o <<Prompt, Goodbye>>

\* C9: the selection is the input line with surrounding whitespace removed
\* and nothing else changed: a line whose trimmed text is one of "1".."6"
\* is answered as that choice, every other line as an invalid choice.
C9_TrimmedMatch ==
    /\ pc = "dispatch" => choice = Trimmed(inputs[pos])
    /\ \A k \in 1..pos :
          Answered(k) =>
              LET c == Trimmed(inputs[k])
              IN  /\ (c \in ExampleChoices /\ PairPresent(c))
                         => Response(k) = FullAnswer(c)
                  /\ c = Str6 => Response(k) = <<Goodbye>> /\ pc = "done"
                  /\ c \notin ExampleChoices \cup {Str6}
                         => Response(k) = <<InvalidMsg>>
                  /\ inputs[k] = <<" ","6"," ">> => Response(k) = <<Goodbye>>
                  /\ (inputs[k] = <<" ","3">> /\ PairPresent(Str3))
                         => Response(k) = FullAnswer(Str3)
                  /\ inputs[k] \in {<<>>, <<"0","6">>, <<"1",".">>, <<"7">>}
                         => Response(k) = <<InvalidMsg>>

\* "06" was rejected, " 3" showed the LSP pair and " 6 " ended the session.
C9_Witness ==
    /\ inputs = <<(<<"0","6">>), (<<" ","3">>), (<<" ","6"," ">>)>>
    /\ fs = AllOk
    /\ pc = "done"
    /\ Response(1) = <<InvalidMsg>>
    /\ Response(2) = FullAnswer(Str3)
    /\ Response(3) = <<Goodbye>>

\* File texts that have been printed.
PrintedFiles == {p \in ExampleFiles : Positions(FileText(p)) # {}}

\* C10: a call of load_example with a missing file ends in
\* FileNotFoundError, which leaves the call.  If the bad file is missing,
\* only the bad header was printed and the good file was never opened; if
\* only the good file is missing, the bad header, the bad text and the good
\* header were printed.  Only texts of existing files are ever printed.
C10_FileNotFoundSurfaces ==
    /\ \A k \in 1..pos :
          LET c == Trimmed(inputs[k])
          IN  (Answered(k) /\ c \in ExampleChoices) =>
                /\ fs[LayoutBad(c)] = "missing" =>
                      /\ k = pos /\ pc = "crashed" /\ exc = "FileNotFoundError"
                      /\ Response(k) = <<BadHeader>>
                      /\ opened[Len(opened)] = LayoutBad(c)
                      /\ Len(opened) = 2 * Cardinality({j \in 1..(k - 1) :
                                 Trimmed(inputs[j]) \in ExampleChoices}) + 1
                /\ (fs[LayoutBad(c)] = "ok" /\ fs[LayoutGood(c)] = "missing") =>
                      /\ k = pos /\ pc = "crashed" /\ exc = "FileNotFoundError"
                      /\ Response(k) =
                            <<BadHeader, FileText(LayoutBad(c)), GoodHeader>>
                      /\ opened[Len(opened)] = LayoutGood(c)
    /\ exc = "FileNotFoundError" =>
          /\ pc = "crashed"
          /\ fs[opened[Len(opened)]] = "missing"
    /\ \A p \in PrintedFiles : fs[p] = "ok"

\* The bad file of the selected example is missing.
C10_WitnessBad ==
    /\ pc = "crashed"
    /\ exc = "FileNotFoundError"
    /\ pos = 2
    /\ fs[BadOcp] = "missing"
    /\ Response(2) = <<BadHeader>>

\* Only the good file of the selected example is missing.
C10_Witness ==
    /\ pc = "crashed"
    /\ exc = "FileNotFoundError"
    /\ pos = 2
    /\ fs[GoodOcp] = "missing"
    /\ Response(1) = FullAnswer(Str4)
    /\ Response(2) = <<BadHeader, FileText(BadOcp), GoodHeader>>

====
